---- MODULE Spec2Model ----
(***************************************************************************)
(* A model of go-shutil (file.go, errors.go): CopyFile, CopyStat, Copy2    *)
(* and CopyTree running against a small POSIX-like filesystem with         *)
(* directories, regular files, hard links, symbolic links and named pipes. *)
(*                                                                         *)
(* Paths are sequences of names (the root is << >>).  A file is a node     *)
(* with an identity (device/inode), so that two paths may name the same    *)
(* file.  CopyFile and Copy2 are single steps; CopyTree is a stack machine *)
(* with one frame per active call and one step per statement group.        *)
(***************************************************************************)
EXTENDS Integers, Sequences, FiniteSets, TLC

\* ------------------------------------------------------------------ bounds

\* The longest path (in components) the filesystem accepts: a longer one
\* fails with ENAMETOOLONG, as PATH_MAX makes every system call do.
MaxDepth == 5
\* How many symbolic links one path resolution follows before ELOOP.
MaxHops == 2
\* The longest file content, in bytes.
MaxLen == 2

\* ------------------------------------------------------------ filesystem

\* Directory listings are sorted by file name (ioutil.ReadDir).
NameOrder == <<"D", "D2", "a", "b", "c", "d", "e", "f", "h", "k", "l", "nx", "p", "y">>

NoPath == <<"">>

\* A node of the filesystem.  Of the permission bits only one matters here:
\* ro, a directory in which the caller may not create entries.
Node(kind, id, data, target, ro) ==
    [kind |-> kind, id |-> id, data |-> data, target |-> target, ro |-> ro]
DirNode(id, ro) == Node("dir", id, <<>>, <<>>, ro)
FileNode(id, data) == Node("file", id, data, <<>>, FALSE)
FifoNode(id) == Node("fifo", id, <<>>, <<>>, FALSE)
LinkNode(id, target) == Node("symlink", id, <<>>, target, FALSE)
NoNode == Node("none", -1, <<>>, <<>>, FALSE)

Max(S) == CHOOSE x \in S : \A y \in S : y <= x
Min(a, b) == IF a <= b THEN a ELSE b
NewId(f) == 1 + Max({f[p].id : p \in DOMAIN f})

Parent(p) == SubSeq(p, 1, Len(p) - 1)
IsPrefix(p, q) == Len(p) <= Len(q) /\ SubSeq(q, 1, Len(p)) = p

\* Path resolution: walk `rest` from the resolved directory `cur`, following
\* a symbolic link in the middle of the path always and at its end when
\* `follow`.  The result's path is the real path; it may be absent from the
\* filesystem only in its last component.
RECURSIVE Walk(_, _, _, _, _)
Walk(f, cur, rest, follow, hops) ==
    IF rest = <<>> THEN [err |-> "nil", path |-> cur]
    ELSE LET nxt == Append(cur, Head(rest))
             last == Tail(rest) = <<>>
         IN  IF nxt \notin DOMAIN f
             THEN [err |-> IF last THEN "nil" ELSE "ENOENT", path |-> nxt]
             ELSE IF f[nxt].kind = "symlink" /\ (~last \/ follow)
             THEN IF hops = 0
                  THEN [err |-> "ELOOP", path |-> nxt]
                  ELSE Walk(f, <<>>, f[nxt].target \o Tail(rest), follow, hops - 1)
             ELSE IF ~last /\ f[nxt].kind # "dir"
             THEN [err |-> "ENOTDIR", path |-> nxt]
             ELSE Walk(f, nxt, Tail(rest), follow, hops)

Resolve(f, p, follow) ==
    IF Len(p) > MaxDepth THEN [err |-> "ENAMETOOLONG", path |-> p]
    ELSE Walk(f, <<>>, p, follow, MaxHops)

InfoFrom(f, w) ==
    IF w.err # "nil" THEN [err |-> w.err, path |-> w.path, node |-> NoNode]
    ELSE IF w.path \notin DOMAIN f
    THEN [err |-> "ENOENT", path |-> w.path, node |-> NoNode]
    ELSE [err |-> "nil", path |-> w.path, node |-> f[w.path]]

InfoOf(f, p, follow) == InfoFrom(f, Resolve(f, p, follow))

\* os.Stat follows symbolic links; os.Lstat does not follow the last one.
Stat(f, p) == InfoOf(f, p, TRUE)
Lstat(f, p) == InfoOf(f, p, FALSE)

\* A comparison of the resolved paths, which tells two hard links apart.
SameFileMut(a, b) == a.path = b.path
\* os.SameFile: the same device and inode.
SameFile(a, b) == a.node.id = b.node.id

\* A mode test that never sees a named pipe.
IsNamedPipeMut(info) == FALSE
\* info.Mode() & os.ModeNamedPipe == os.ModeNamedPipe
IsNamedPipe(info) == info.node.kind = "fifo"

\* srcInfo.Mode() & os.ModeSymlink == os.ModeSymlink
IsSymlink(info) == info.node.kind = "symlink"

IsNotExist(e) == e = "ENOENT"

\* srcInfo.Mode(), as far as the permission bits are modelled.
Mode(info) == info.node.ro

\* Whether the caller may create an entry at the real path q.
MayCreate(f, q) == ~f[Parent(q)].ro

\* Every path of the same file sees a write to it.
SetData(f, id, data) ==
    [q \in DOMAIN f |-> IF f[q].id = id /\ f[q].kind = "file"
                        THEN [f[q] EXCEPT !.data = data] ELSE f[q]]

\* filepath.Join(dir, name) and filepath.Base(path) on cleaned paths.
Join(dir, name) == IF name = "/" THEN dir ELSE Append(dir, name)
Base(p) == IF p = <<>> THEN "/" ELSE p[Len(p)]

\* ---------------------------------------------------------------- errors

Nil == [kind |-> "nil", a |-> NoPath, b |-> NoPath]
PathError(kind, p) == [kind |-> kind, a |-> p, b |-> NoPath]
SameFileError(src, dst) == [kind |-> "SameFileError", a |-> src, b |-> dst]
SpecialFileError(file) == [kind |-> "SpecialFileError", a |-> file, b |-> NoPath]
CopyNotCompleteError(src, dst) == [kind |-> "CopyNotCompleteError", a |-> src, b |-> dst]

\* -------------------------------------------------------------- CopyFile

\* What the environment may do to one CopyFile call: nothing, fail the open
\* or the create, fail a write after n bytes, end the source after n bytes
\* (it shrank since the stat), or let the source grow by one byte.
NoFault == [kind |-> "none", n |-> 0]
Faults(inject) ==
    IF inject
    THEN {NoFault, [kind |-> "open", n |-> 0], [kind |-> "create", n |-> 0],
          [kind |-> "grow", n |-> 0]}
         \cup {[kind |-> k, n |-> n] : k \in {"wfail", "eof"}, n \in 0 .. MaxLen - 1}
    ELSE {NoFault}

NoIo == [called |-> FALSE, n |-> 0, size |-> 0, err |-> Nil]

\* os.Create(dst): O_RDWR|O_CREATE|O_TRUNC, following symbolic links.
CreateAt(f, dst, fault, w) ==
    IF fault.kind = "create" THEN [fs |-> f, err |-> "EACCES", path |-> dst]
    ELSE IF w.err # "nil" THEN [fs |-> f, err |-> w.err, path |-> dst]
    ELSE IF w.path \notin DOMAIN f /\ ~MayCreate(f, w.path)
    THEN [fs |-> f, err |-> "EACCES", path |-> dst]
    ELSE IF w.path \notin DOMAIN f
    THEN [fs |-> (w.path :> FileNode(NewId(f), <<>>)) @@ f, err |-> "nil", path |-> w.path]
    ELSE IF f[w.path].kind = "dir" THEN [fs |-> f, err |-> "EISDIR", path |-> dst]
    ELSE [fs |-> SetData(f, f[w.path].id, <<>>), err |-> "nil", path |-> w.path]

Create(f, dst, fault) == CreateAt(f, dst, fault, Resolve(f, dst, TRUE))

\* io.Copy(fdst, fsrc): the bytes that reached fdst and the error, if any.
\* A nil error means the source was read to its end and every byte written.
IoCopy(srcNode, fault) ==
    LET data == srcNode.data
    IN  IF srcNode.kind = "dir" THEN [out |-> <<>>, err |-> "EISDIR"]
        ELSE IF fault.kind = "wfail"
        THEN [out |-> SubSeq(data, 1, Min(fault.n, Len(data))), err |-> "ErrShortWrite"]
        ELSE IF fault.kind = "eof"
        THEN [out |-> SubSeq(data, 1, Min(fault.n, Len(data))), err |-> "nil"]
        ELSE IF fault.kind = "grow"
        THEN [out |-> Append(data, 0), err |-> "nil"]
        ELSE [out |-> data, err |-> "nil"]

\* A CopyFile without the size comparison.
SizeMismatchMut(size, srcInfo) == FALSE
\* size != srcInfo.Size()
SizeMismatch(size, srcInfo) == size # Len(srcInfo.node.data)

\* size, err := io.Copy(fdst, fsrc) and the comparison of size with
\* srcInfo.Size(): c is the created destination, cp what io.Copy did.
CopyCheck(c, src, dst, srcInfo, cp) ==
    LET f2 == SetData(c.fs, c.fs[c.path].id, cp.out)
        size == Len(cp.out)
        io == [called |-> TRUE, n |-> size, size |-> Len(srcInfo.node.data),
               err |-> IF cp.err = "nil" THEN Nil ELSE PathError(cp.err, src)]
    IN  IF cp.err # "nil"
        THEN [fs |-> f2, path |-> NoPath, err |-> PathError(cp.err, src), io |-> io]
        ELSE IF SizeMismatch(size, srcInfo)
        THEN [fs |-> f2, path |-> NoPath, err |-> CopyNotCompleteError(src, dst), io |-> io]
        ELSE [fs |-> f2, path |-> dst, err |-> Nil, io |-> io]

\* fdst, err := os.Create(dst), then the copy into it.
CopyInto(f, src, dst, srcInfo, fault, c) ==
    IF c.err # "nil"
    THEN [fs |-> f, path |-> NoPath, err |-> PathError(c.err, dst), io |-> NoIo]
    ELSE CopyCheck(c, src, dst, srcInfo, IoCopy(c.fs[srcInfo.path], fault))

\* The else branch of CopyFile: open, create, io.Copy, compare the sizes.
CopyContent(f, src, dst, srcInfo, fault) ==
    IF fault.kind = "open"
    THEN [fs |-> f, path |-> NoPath, err |-> PathError("EACCES", src), io |-> NoIo]
    ELSE CopyInto(f, src, dst, srcInfo, fault, Create(f, dst, fault))

\* os.Symlink(srcOrigin, dst), l being the link read by os.Readlink(src).
SymlinkAt(f, src, dst, l, w) ==
    IF l.err # "nil" \/ l.node.kind # "symlink"
    THEN [fs |-> f, path |-> NoPath, err |-> PathError("EINVAL", src), io |-> NoIo]
    ELSE IF w.err # "nil"
    THEN [fs |-> f, path |-> NoPath, err |-> PathError(w.err, dst), io |-> NoIo]
    ELSE IF w.path \in DOMAIN f
    THEN [fs |-> f, path |-> NoPath, err |-> PathError("EEXIST", dst), io |-> NoIo]
    ELSE IF ~MayCreate(f, w.path)
    THEN [fs |-> f, path |-> NoPath, err |-> PathError("EACCES", dst), io |-> NoIo]
    ELSE [fs |-> (w.path :> LinkNode(NewId(f), l.node.target)) @@ f,
          path |-> dst, err |-> Nil, io |-> NoIo]

\* The symlink branch of CopyFile: os.Readlink(src), os.Symlink(origin, dst).
CopyLink(f, src, dst) == SymlinkAt(f, src, dst, Lstat(f, src), Resolve(f, dst, FALSE))

\* CopyFile after its two stats.
CopyFileWith(f, src, dst, followSymlinks, fault, srcInfo, dstInfo) ==
    LET fail(e) == [fs |-> f, path |-> NoPath, err |-> e, io |-> NoIo]
    IN  IF srcInfo.err # "nil" THEN fail(PathError(srcInfo.err, src))
        ELSE IF IsNamedPipe(srcInfo) THEN fail(SpecialFileError(src))
        ELSE IF dstInfo.err = "nil" /\ SameFile(srcInfo, dstInfo)
        THEN fail(SameFileError(src, dst))
        ELSE IF dstInfo.err = "nil" /\ IsNamedPipe(dstInfo)
        THEN fail(SpecialFileError(dst))
        ELSE IF dstInfo.err # "nil" /\ ~IsNotExist(dstInfo.err)
        THEN fail(PathError(dstInfo.err, dst))
        ELSE IF ~followSymlinks /\ IsSymlink(srcInfo)
        THEN CopyLink(f, src, dst)
        ELSE CopyContent(f, src, dst, srcInfo, fault)

CopyFile(f, src, dst, followSymlinks, fault) ==
    CopyFileWith(f, src, dst, followSymlinks, fault, Stat(f, src), Stat(f, dst))

\* CopyStat is a stub: it changes nothing and returns nil.
CopyStat(f, src, dst) == [fs |-> f, err |-> Nil]

\* ----------------------------------------------------------------- Copy2

\* A Copy2 that writes to dst even when dst is a directory.
Copy2DstMut(f, src, dst) == dst
\* Where Copy2 writes: dst, or dst/basename(src) when dst is a directory.
Copy2Dst(f, src, dst) ==
    IF Stat(f, dst).err = "nil" /\ Stat(f, dst).node.kind = "dir"
    THEN Join(dst, Base(src)) ELSE dst

\* err = CopyStat(src, dst, ...); return dst, nil
Copy2Stat(r, s, d) ==
    IF s.err # Nil THEN [r EXCEPT !.path = NoPath, !.err = s.err]
    ELSE [r EXCEPT !.fs = s.fs, !.path = d]

\* _, err = CopyFile(src, dst, ...); if err != nil { return "", err }
Copy2File(r, src, d) ==
    IF r.err # Nil THEN [r EXCEPT !.path = NoPath]
    ELSE Copy2Stat(r, CopyStat(r.fs, src, d), d)

Copy2To(f, src, d, followSymlinks, fault) ==
    Copy2File(CopyFile(f, src, d, followSymlinks, fault), src, d)

Copy2(f, src, dst, followSymlinks, fault) ==
    Copy2To(f, src, Copy2Dst(f, src, dst), followSymlinks, fault)

\* -------------------------------------------------------------- CopyTree

\* The listing of the directory that st is the stat of.
Listing(f, st) ==
    IF st.err # "nil" THEN [err |-> st.err, subs |-> <<>>]
    ELSE IF st.node.kind # "dir" THEN [err |-> "ENOTDIR", subs |-> <<>>]
    ELSE [err |-> "nil",
          subs |-> SelectSeq(NameOrder, LAMBDA n : Append(st.path, n) \in DOMAIN f)]

\* A listing that misses its first entry.
DropFirst(rd) == [rd EXCEPT !.subs = IF rd.subs = <<>> THEN <<>> ELSE Tail(rd.subs)]
ReadDirMut(f, src) == DropFirst(Listing(f, Stat(f, src)))
\* ioutil.ReadDir(src): the names in the directory, sorted by name.
ReadDir(f, src) == Listing(f, Stat(f, src))

\* os.Mkdir(p, mode): the parent must resolve to a directory in which the
\* caller may create, and p must not exist.
MkdirAt(f, p, mode, w) ==
    IF w.err # "nil" THEN [fs |-> f, err |-> w.err, at |-> p, made |-> {}]
    ELSE IF w.path \in DOMAIN f THEN [fs |-> f, err |-> "EEXIST", at |-> p, made |-> {}]
    ELSE IF ~MayCreate(f, w.path) THEN [fs |-> f, err |-> "EACCES", at |-> p, made |-> {}]
    ELSE [fs |-> (w.path :> DirNode(NewId(f), mode)) @@ f, err |-> "nil", at |-> p,
          made |-> {w.path}]

Mkdir(f, p, mode) == MkdirAt(f, p, mode, Resolve(f, p, FALSE))

\* The end of os.MkdirAll: the parent is there (or could not be made).
MkdirLast(par, p, mode) ==
    IF par.err # "nil" THEN par
    ELSE [Mkdir(par.fs, p, mode) EXCEPT !.made = @ \cup par.made]

\* os.MkdirAll(p, mode): nothing to do for a directory; otherwise the parent
\* first, then p itself, each made with the mode given.
RECURSIVE MkdirAll(_, _, _)
MkdirAllWith(f, p, mode, st) ==
    IF st.err = "nil"
    THEN [fs |-> f, err |-> IF st.node.kind = "dir" THEN "nil" ELSE "ENOTDIR",
          at |-> p, made |-> {}]
    ELSE MkdirLast(MkdirAll(f, Parent(p), mode), p, mode)

MkdirAll(f, p, mode) == MkdirAllWith(f, p, mode, Stat(f, p))

\* The Ignore callback of the options: absent ("nil"), or one that names
\* call.ignoreNames at the top directory only ("top") or in every directory.
Ignore(c, src, subs) ==
    IF c.ignoreMode = "all" \/ (c.ignoreMode = "top" /\ src = c.src)
    THEN c.ignoreNames ELSE {}

\* A loop over ignoredNames that matches nothing.
IsIgnoredMut(name, ignoredNames) == FALSE
\* The inner loop over ignoredNames.
IsIgnored(name, ignoredNames) == name \in ignoredNames

\* options.CopyFunction, Copy2 by default; always called with nil options.
CopyFunction(c, f, src, dst, fault) ==
    IF c.copyFn = "CopyFile" THEN CopyFile(f, src, dst, TRUE, fault)
    ELSE Copy2(f, src, dst, TRUE, fault)

\* An order in which MkdirAll comes before the call of Ignore.
PcAfterMut(pc) ==
    CASE pc = "stat" -> "mkdir"
      [] pc = "mkdir" -> "ignore"
      [] pc = "ignore" -> "loop"
\* The order of CopyTree's statements before its loop.
PcAfter(pc) ==
    CASE pc = "stat" -> "ignore"
      [] pc = "ignore" -> "mkdir"
      [] pc = "mkdir" -> "loop"

NewFrame(src, dst) ==
    [src |-> src, dst |-> dst, mode |-> FALSE, subs |-> <<>>, i |-> 1, ignored |-> {},
     pc |-> "stat", rpath |-> NoPath, rerr |-> Nil]

\* return "", err  and  return dst, nil
Returning(fr, path, err) == [fr EXCEPT !.pc = "ret", !.rpath = path, !.rerr = err]

\* A loop that goes on to the next entry whatever the call returned.
AfterCallMut(fr, err) == [fr EXCEPT !.pc = "loop", !.i = fr.i + 1]
\* if err != nil { return "", err } after a recursive call or a copy.
AfterCall(fr, err) ==
    IF err # Nil THEN Returning(fr, NoPath, err)
    ELSE [fr EXCEPT !.pc = "loop", !.i = fr.i + 1]

Event(ev, src, dst, subs) == [ev |-> ev, src |-> src, dst |-> dst, subs |-> subs]

\* ----------------------------------------------------------------- state

VARIABLES
    fs,       \* the filesystem: real path -> node
    call,     \* the call under way: operation, arguments, options
    pc,       \* "start", "running" (inside CopyTree) or "done"
    stack,    \* CopyTree's frames, the innermost last
    ret,      \* what the call returned: [path, err]
    fs0,      \* the filesystem when the call was made
    log,      \* what CopyTree did, in order
    created,  \* the directories CopyTree's MkdirAll calls made
    failed,   \* the first error raised, with the filesystem and log then
    io        \* the last io.Copy: bytes written, size from the stat, error

vars == <<fs, call, pc, stack, ret, fs0, log, created, failed, io>>

World1 ==
    (<<>> :> DirNode(0, FALSE))
    @@ (<<"D">> :> DirNode(1, FALSE))
    @@ (<<"D", "a">> :> FileNode(2, <<1>>))
    @@ (<<"D", "b">> :> FileNode(3, <<2, 1>>))
    @@ (<<"D", "c">> :> DirNode(4, FALSE))
    @@ (<<"D", "c", "d">> :> FileNode(5, <<2>>))
    @@ (<<"e">> :> DirNode(6, FALSE))
    @@ (<<"f">> :> FileNode(7, <<1, 2>>))
    @@ (<<"h">> :> FileNode(7, <<1, 2>>))
    @@ (<<"l">> :> LinkNode(8, <<"f">>))
    @@ (<<"p">> :> FifoNode(9))
    @@ (<<"k">> :> LinkNode(10, <<"nx">>))

World2 ==
    (<<>> :> DirNode(0, FALSE))
    @@ (<<"D">> :> DirNode(1, FALSE))
    @@ (<<"D", "a">> :> FileNode(2, <<2>>))
    @@ (<<"D", "h">> :> FileNode(2, <<2>>))
    @@ (<<"D", "l">> :> LinkNode(3, <<"D", "a">>))
    @@ (<<"D", "c">> :> DirNode(4, FALSE))
    @@ (<<"D", "c", "p">> :> FifoNode(5))
    @@ (<<"D2">> :> DirNode(6, FALSE))
    @@ (<<"D2", "a">> :> DirNode(7, FALSE))
    @@ (<<"l">> :> LinkNode(8, <<"D">>))
    @@ (<<"f">> :> FileNode(9, <<>>))
    @@ (<<"h">> :> LinkNode(10, <<"p">>))
    @@ (<<"p">> :> FifoNode(11))
    @@ (<<"k">> :> LinkNode(12, <<"k">>))

World3 ==
    (<<>> :> DirNode(0, FALSE))
    @@ (<<"D">> :> DirNode(1, TRUE))
    @@ (<<"D", "b">> :> FileNode(5, <<2>>))
    @@ (<<"D2">> :> DirNode(6, TRUE))
    @@ (<<"h">> :> DirNode(7, FALSE))
    @@ (<<"e">> :> FileNode(2, <<1, 1>>))
    @@ (<<"l">> :> LinkNode(3, <<"e">>))
    @@ (<<"k">> :> LinkNode(4, <<"l">>))

Worlds == {World1, World2, World3}

CallPaths ==
    {<<"D">>, <<"D", "a">>, <<"D", "c">>, <<"D", "c", "y">>, <<"D2">>, <<"D2", "y">>,
     <<"e">>, <<"f">>, <<"h">>, <<"l">>, <<"p">>, <<"k">>, <<"nx">>}

IgnoreSets == {{"a"}, {"c", "p"}}

Calls ==
    [op : {"CopyFile", "Copy2"}, src : CallPaths, dst : CallPaths,
     follow : BOOLEAN, copyFn : {"Copy2"}, ignoreMode : {"nil"},
     ignoreNames : {{}}, inject : BOOLEAN]
    \cup [op : {"CopyTree"}, src : CallPaths, dst : CallPaths,
          follow : {TRUE}, copyFn : {"Copy2", "CopyFile"}, ignoreMode : {"nil"},
          ignoreNames : {{}}, inject : BOOLEAN]
    \cup [op : {"CopyTree"}, src : CallPaths, dst : CallPaths,
          follow : {TRUE}, copyFn : {"Copy2", "CopyFile"}, ignoreMode : {"top", "all"},
          ignoreNames : IgnoreSets, inject : BOOLEAN]

NoRet == [path |-> NoPath, err |-> Nil]
NoFail == [err |-> Nil, fs |-> <<>>, log |-> <<>>]

Init ==
    /\ fs \in Worlds
    /\ fs0 = fs
    /\ call \in Calls
    /\ pc = "start"
    /\ stack = <<>>
    /\ ret = NoRet
    /\ log = <<>>
    /\ created = {}
    /\ failed = NoFail
    /\ io = NoIo

\* The first error raised is remembered with the filesystem and log it left.
Track(e, f, l) ==
    IF failed.err = Nil /\ e # Nil THEN [err |-> e, fs |-> f, log |-> l] ELSE failed

\* --------------------------------------------------------------- actions

CallCopyFile ==
    /\ pc = "start" /\ call.op = "CopyFile"
    /\ \E fault \in Faults(call.inject) :
         LET r == CopyFile(fs, call.src, call.dst, call.follow, fault)
         IN  /\ fs' = r.fs
             /\ ret' = [path |-> r.path, err |-> r.err]
             /\ io' = r.io
             /\ failed' = Track(r.err, r.fs, log)
    /\ pc' = "done"
    /\ UNCHANGED <<call, stack, fs0, log, created>>

CallCopy2 ==
    /\ pc = "start" /\ call.op = "Copy2"
    /\ \E fault \in Faults(call.inject) :
         LET r == Copy2(fs, call.src, call.dst, call.follow, fault)
         IN  /\ fs' = r.fs
             /\ ret' = [path |-> r.path, err |-> r.err]
             /\ io' = r.io
             /\ failed' = Track(r.err, r.fs, log)
    /\ pc' = "done"
    /\ UNCHANGED <<call, stack, fs0, log, created>>

CallCopyTree ==
    /\ pc = "start" /\ call.op = "CopyTree"
    /\ pc' = "running"
    /\ stack' = <<NewFrame(call.src, call.dst)>>
    /\ UNCHANGED <<fs, call, ret, fs0, log, created, failed, io>>

Top == stack[Len(stack)]
SetTop(fr) == [stack EXCEPT ![Len(stack)] = fr]
Running(p) == pc = "running" /\ stack # <<>> /\ Top.pc = p

\* srcInfo, err := os.Stat(src); subs, err := ioutil.ReadDir(src)
TreeStat ==
    /\ Running("stat")
    /\ LET st == Stat(fs, Top.src)
           rd == ReadDir(fs, Top.src)
       IN  IF st.err # "nil"
           THEN /\ stack' = SetTop(Returning(Top, NoPath, PathError(st.err, Top.src)))
                /\ failed' = Track(PathError(st.err, Top.src), fs, log)
                /\ log' = log
           ELSE IF rd.err # "nil"
           THEN /\ stack' = SetTop(Returning(Top, NoPath, PathError(rd.err, Top.src)))
                /\ failed' = Track(PathError(rd.err, Top.src), fs, log)
                /\ log' = log
           ELSE /\ stack' = SetTop([Top EXCEPT !.mode = Mode(st), !.subs = rd.subs,
                                               !.pc = PcAfter("stat")])
                /\ log' = Append(log, Event("visit", Top.src, Top.dst, rd.subs))
                /\ failed' = failed
    /\ UNCHANGED <<fs, call, pc, ret, fs0, created, io>>

\* ignoredNames = options.Ignore(src, subs), when there is an Ignore.
TreeIgnore ==
    /\ Running("ignore")
    /\ stack' = SetTop([Top EXCEPT !.ignored = Ignore(call, Top.src, Top.subs),
                                   !.pc = PcAfter("ignore")])
    /\ log' = IF call.ignoreMode = "nil" THEN log
              ELSE Append(log, Event("ignore", Top.src, Top.dst, Top.subs))
    /\ UNCHANGED <<fs, call, pc, ret, fs0, created, failed, io>>

\* err = os.MkdirAll(dst, srcInfo.Mode())
TreeMkdir ==
    /\ Running("mkdir")
    /\ LET m == MkdirAll(fs, Top.dst, Top.mode)
       IN  IF m.err # "nil"
           THEN /\ stack' = SetTop(Returning(Top, NoPath, PathError(m.err, m.at)))
                /\ failed' = Track(PathError(m.err, m.at), fs, log)
                /\ UNCHANGED <<fs, log, created>>
           ELSE /\ stack' = SetTop([Top EXCEPT !.pc = PcAfter("mkdir")])
                /\ fs' = m.fs
                /\ created' = created \cup m.made
                /\ log' = Append(log, Event("mkdir", Top.src, Top.dst, <<>>))
                /\ failed' = failed
    /\ UNCHANGED <<call, pc, ret, fs0, io>>

InLoop == Running("loop") /\ Top.i <= Len(Top.subs)
Sub == Top.subs[Top.i]
SubSrc == Join(Top.src, Sub)
SubDst == Join(Top.dst, Sub)

\* if isIgnored { continue }
TreeSkipIgnored ==
    /\ InLoop
    /\ IsIgnored(Sub, Top.ignored)
    /\ stack' = SetTop([Top EXCEPT !.i = Top.i + 1])
    /\ UNCHANGED <<fs, call, pc, ret, fs0, log, created, failed, io>>

\* subSrcInfo, err := os.Lstat(subSrc); if err != nil { return "", err }
\* The lstat fails on what the filesystem holds, or because the operating
\* system fails it.
LstatErr(f, p) == IF Lstat(f, p).err # "nil" THEN Lstat(f, p).err ELSE "EIO"

TreeLstatFail ==
    /\ InLoop
    /\ ~IsIgnored(Sub, Top.ignored)
    /\ Lstat(fs, SubSrc).err # "nil" \/ call.inject
    /\ stack' = SetTop(Returning(Top, NoPath, PathError(LstatErr(fs, SubSrc), SubSrc)))
    /\ failed' = Track(PathError(LstatErr(fs, SubSrc), SubSrc), fs, log)
    /\ UNCHANGED <<fs, call, pc, ret, fs0, log, created, io>>

\* A symbolic link among the entries: nothing is done with it.
TreeSkipSymlink ==
    /\ InLoop
    /\ ~IsIgnored(Sub, Top.ignored)
    /\ Lstat(fs, SubSrc).err = "nil"
    /\ IsSymlink(Lstat(fs, SubSrc))
    /\ stack' = SetTop([Top EXCEPT !.i = Top.i + 1])
    /\ UNCHANGED <<fs, call, pc, ret, fs0, log, created, failed, io>>

\* _, err = CopyTree(subSrc, subDst, options)
TreeRecurse ==
    /\ InLoop
    /\ ~IsIgnored(Sub, Top.ignored)
    /\ Lstat(fs, SubSrc).err = "nil"
    /\ ~IsSymlink(Lstat(fs, SubSrc))
    /\ Lstat(fs, SubSrc).node.kind = "dir"
    /\ stack' = Append(SetTop([Top EXCEPT !.pc = "call"]), NewFrame(SubSrc, SubDst))
    /\ UNCHANGED <<fs, call, pc, ret, fs0, log, created, failed, io>>

\* _, err = copyFunction(subSrc, subDst, nil)
TreeCopyEntry ==
    /\ InLoop
    /\ ~IsIgnored(Sub, Top.ignored)
    /\ Lstat(fs, SubSrc).err = "nil"
    /\ ~IsSymlink(Lstat(fs, SubSrc))
    /\ Lstat(fs, SubSrc).node.kind # "dir"
    /\ \E fault \in Faults(call.inject) :
         LET r == CopyFunction(call, fs, SubSrc, SubDst, fault)
         IN  /\ fs' = r.fs
             /\ io' = r.io
             /\ log' = Append(log, Event("copy", SubSrc, SubDst, <<>>))
             /\ stack' = SetTop(AfterCall(Top, r.err))
             /\ failed' = Track(r.err, r.fs, log')
    /\ UNCHANGED <<call, pc, ret, fs0, created>>

\* err = CopyStat(src, dst, nil); return dst, nil
TreeCopyStat ==
    /\ Running("loop")
    /\ Top.i > Len(Top.subs)
    /\ LET s == CopyStat(fs, Top.src, Top.dst)
       IN  /\ fs' = s.fs
           /\ stack' = SetTop(IF s.err # Nil THEN Returning(Top, NoPath, s.err)
                              ELSE Returning(Top, Top.dst, Nil))
           /\ failed' = Track(s.err, s.fs, log)
    /\ UNCHANGED <<call, pc, ret, fs0, log, created, io>>

\* A recursive call returns to the loop of its caller.
TreeReturn ==
    /\ Running("ret")
    /\ Len(stack) > 1
    /\ LET rest == SubSeq(stack, 1, Len(stack) - 1)
           caller == rest[Len(rest)]
       IN  stack' = [rest EXCEPT ![Len(rest)] = AfterCall(caller, Top.rerr)]
    /\ UNCHANGED <<fs, call, pc, ret, fs0, log, created, failed, io>>

\* The outermost CopyTree returns to its caller.
TreeDone ==
    /\ Running("ret")
    /\ Len(stack) = 1
    /\ ret' = [path |-> Top.rpath, err |-> Top.rerr]
    /\ pc' = "done"
    /\ stack' = <<>>
    /\ UNCHANGED <<fs, call, fs0, log, created, failed, io>>

\* The operating system fails the call CopyTree is about to make: the stat
\* or the listing of src, or the mkdir of dst.
TreeFault ==
    /\ call.inject
    /\ Running("stat") \/ Running("mkdir")
    /\ stack' = SetTop(Returning(Top, NoPath,
                                 PathError("EIO", IF Top.pc = "mkdir" THEN Top.dst ELSE Top.src)))
    /\ failed' = Track(PathError("EIO", IF Top.pc = "mkdir" THEN Top.dst ELSE Top.src), fs, log)
    /\ UNCHANGED <<fs, call, pc, ret, fs0, log, created, io>>

Next ==
    \/ CallCopyFile
    \/ CallCopy2
    \/ CallCopyTree
    \/ TreeStat
    \/ TreeIgnore
    \/ TreeMkdir
    \/ TreeSkipIgnored
    \/ TreeLstatFail
    \/ TreeSkipSymlink
    \/ TreeRecurse
    \/ TreeCopyEntry
    \/ TreeCopyStat
    \/ TreeReturn
    \/ TreeDone
    \/ TreeFault

Spec == Init /\ [][Next]_vars

\* ---------------------------------------------------------------- claims

Done(op) == pc = "done" /\ call.op = op
SrcInfo0 == Stat(fs0, call.src)
DstInfo0 == Stat(fs0, call.dst)
Last(p) == p[Len(p)]

\* Both paths reach a file of the filesystem at the call, and the same one.
SameUnderlying ==
    /\ SrcInfo0.err = "nil"
    /\ DstInfo0.err = "nil"
    /\ SrcInfo0.node.id = DstInfo0.node.id

\* C3, as amended: when src and dst name the same underlying file and that
\* file is not a named pipe, CopyFile returns SameFileError{src, dst} and
\* leaves the filesystem as it was.
C3_SameFileRefused ==
    (Done("CopyFile") /\ SameUnderlying /\ SrcInfo0.node.kind # "fifo")
        => (ret = [path |-> NoPath, err |-> SameFileError(call.src, call.dst)] /\ fs = fs0)

\* C3's case: a second hard link to a regular file was refused.
C3_Witness ==
    /\ Done("CopyFile") /\ SameUnderlying
    /\ SrcInfo0.path # DstInfo0.path
    /\ SrcInfo0.node.kind = "file"
    /\ Lstat(fs0, call.dst).node.kind = "file"
    /\ ret.err.kind = "SameFileError"

\* C3 as stated: whenever src and dst name the same underlying file,
\* CopyFile returns SameFileError and changes nothing.
C3_AsStated ==
    (Done("CopyFile") /\ SameUnderlying)
        => (ret.err = SameFileError(call.src, call.dst) /\ fs = fs0)

\* C4: when src is a named pipe, CopyFile returns SpecialFileError{src}
\* whatever dst is, and the filesystem after the call is the one before it.
C4_NamedPipeRefused ==
    (Done("CopyFile") /\ SrcInfo0.err = "nil" /\ SrcInfo0.node.kind = "fifo")
        => (ret = [path |-> NoPath, err |-> SpecialFileError(call.src)] /\ fs = fs0)

\* C4's case: a named pipe src with a dst that does not exist.
C4_Witness ==
    /\ Done("CopyFile")
    /\ SrcInfo0.err = "nil" /\ SrcInfo0.node.kind = "fifo"
    /\ Lstat(fs0, call.dst).err = "ENOENT"
    /\ ret.err.kind = "SpecialFileError"

\* C5: with FollowSymlinks false and src a symbolic link, a CopyFile that
\* succeeds has made dst a symbolic link with src's target, and has written
\* no file content: every file there was keeps its content.
C5_LinkRecreated ==
    (/\ Done("CopyFile") /\ ~call.follow
     /\ Lstat(fs0, call.src).err = "nil"
     /\ Lstat(fs0, call.src).node.kind = "symlink"
     /\ ret.err = Nil)
        => /\ Lstat(fs, call.dst).err = "nil"
           /\ Lstat(fs, call.dst).node.kind = "symlink"
           /\ Lstat(fs, call.dst).node.target = Lstat(fs0, call.src).node.target
           /\ \A q \in DOMAIN fs0 : fs[q] = fs0[q]

\* Where C6 says Copy2 writes.
C6_Target ==
    IF DstInfo0.err = "nil" /\ DstInfo0.node.kind = "dir"
    THEN Append(call.dst, Last(call.src)) ELSE call.dst

C6_SrcIsFile == SrcInfo0.err = "nil" /\ SrcInfo0.node.kind = "file"

\* C6: for a regular file src with content C, a Copy2 that succeeds returns
\* dst/basename(src) when dst was a directory and dst otherwise, and the
\* returned path names a file whose content is C; a Copy2 that fails returns
\* no path; and with nothing yet at that target, in a directory the caller
\* may write to, and no failure of the operating system, Copy2 succeeds.
C6_Copy2Target ==
    (Done("Copy2") /\ C6_SrcIsFile)
        => /\ ret.err = Nil =>
                /\ ret.path = C6_Target
                /\ Stat(fs, ret.path).err = "nil"
                /\ Stat(fs, ret.path).node.kind = "file"
                /\ Stat(fs, ret.path).node.data = SrcInfo0.node.data
           /\ ret.err # Nil => ret.path = NoPath
           /\ (/\ ~call.inject
               /\ Resolve(fs0, C6_Target, FALSE).err = "nil"
               /\ Resolve(fs0, C6_Target, FALSE).path \notin DOMAIN fs0
               /\ ~fs0[Parent(Resolve(fs0, C6_Target, FALSE).path)].ro)
                  => ret.err = Nil

\* C6's case: dst was a directory and the copy went to dst/basename(src).
C6_Witness ==
    /\ Done("Copy2") /\ C6_SrcIsFile
    /\ DstInfo0.err = "nil" /\ DstInfo0.node.kind = "dir"
    /\ ret.err = Nil
    /\ ret.path = Append(call.dst, Last(call.src))
    /\ SrcInfo0.node.data # <<>>

\* C7, as amended: when io.Copy wrote a number of bytes other than the size
\* the stat of src reported, CopyFile fails: with io.Copy's error when it
\* returned one, and otherwise with CopyNotCompleteError{src, dst}.
C7_SizeChecked ==
    (Done("CopyFile") /\ io.called /\ io.n # io.size)
        => /\ ret.path = NoPath
           /\ ret.err # Nil
           /\ io.err # Nil => ret.err = io.err
           /\ io.err = Nil => ret.err = CopyNotCompleteError(call.src, call.dst)

\* C7's case: io.Copy ended without error after fewer bytes than the size.
C7_Witness ==
    /\ Done("CopyFile") /\ io.called
    /\ io.n < io.size /\ io.err = Nil
    /\ ret.err = CopyNotCompleteError(call.src, call.dst)

\* C7 as stated: a copy that wrote fewer bytes than the size reported by the
\* stat of src fails with CopyNotCompleteError{src, dst}.
C7_AsStated ==
    (Done("CopyFile") /\ io.called /\ io.n < io.size)
        => ret.err = CopyNotCompleteError(call.src, call.dst)

\* ------------------------------------------------------- claims: CopyTree

SrcReal == SrcInfo0.path
SrcIsDir == SrcInfo0.err = "nil" /\ SrcInfo0.node.kind = "dir"
Under(f, d) == {q \in DOMAIN f : IsPrefix(d, q) /\ q # d}
Rel(d, q) == SubSeq(q, Len(d) + 1, Len(q))
DstAnc(k) == SubSeq(call.dst, 1, k)

\* Nothing is at dst, and what there is of the path to it is directories,
\* the last of which the caller may write to.
DstFresh ==
    \A k \in 0 .. Len(call.dst) :
        \/ /\ k < Len(call.dst)
           /\ Stat(fs0, DstAnc(k)).err = "nil"
           /\ Stat(fs0, DstAnc(k)).node.kind = "dir"
           /\ Lstat(fs0, DstAnc(k + 1)).err = "ENOENT" => ~Stat(fs0, DstAnc(k)).node.ro
        \/ Lstat(fs0, DstAnc(k)).err = "ENOENT"

\* dst is not src and not inside it.
DstOutside ==
    \A k \in 0 .. Len(call.dst) :
        Stat(fs0, DstAnc(k)).err = "nil" => ~IsPrefix(SrcReal, Stat(fs0, DstAnc(k)).path)

\* No path of the copy is longer than the filesystem accepts.
PathsFit ==
    \A q \in Under(fs0, SrcReal) :
        /\ Len(call.dst) + Len(Rel(SrcReal, q)) <= MaxDepth
        /\ Len(call.src) + Len(Rel(SrcReal, q)) <= MaxDepth

\* The entry at r below src is reached: no name on the way to it is in the
\* ignore set of the directory that holds it.
Kept(r) ==
    \A k \in 1 .. Len(r) : r[k] \notin Ignore(call, call.src \o SubSeq(r, 1, k - 1), <<>>)

DstReal == Stat(fs, call.dst).path

C1_Pre ==
    /\ call.ignoreMode = "nil" /\ call.copyFn = "Copy2" /\ ~call.inject
    /\ SrcIsDir
    /\ \A q \in Under(fs0, SrcReal) : fs0[q].kind \in {"file", "dir"}
    /\ \A q \in Under(fs0, SrcReal) \cup {SrcReal} : ~fs0[q].ro
    /\ DstFresh /\ DstOutside /\ PathsFit

\* C1: CopyTree of a tree of regular files and directories to a dst that does
\* not exist and is not inside src, with no Ignore, the default copy function
\* and no failure of the operating system (none injected, every path short
\* enough, and every directory of src, whose mode its copy gets, writable by
\* the caller), returns (dst, nil) and leaves at
\* dst exactly the entries of src: the same directories, and the same files
\* with the same content.
C1_TreeCopied ==
    (Done("CopyTree") /\ C1_Pre)
        => /\ ret = [path |-> call.dst, err |-> Nil]
           /\ Stat(fs, call.dst).err = "nil"
           /\ Stat(fs, call.dst).node.kind = "dir"
           /\ \A q \in Under(fs0, SrcReal) :
                /\ DstReal \o Rel(SrcReal, q) \in DOMAIN fs
                /\ fs[DstReal \o Rel(SrcReal, q)].kind = fs0[q].kind
                /\ fs[DstReal \o Rel(SrcReal, q)].data = fs0[q].data
           /\ \A q \in Under(fs, DstReal) : SrcReal \o Rel(DstReal, q) \in DOMAIN fs0
           /\ \A q \in DOMAIN fs0 : fs[q] = fs0[q]

\* C1's case: a tree with files and a file in a subdirectory was copied.
C1_Witness ==
    /\ Done("CopyTree") /\ C1_Pre
    /\ \E q \in Under(fs0, SrcReal) : Len(Rel(SrcReal, q)) = 2 /\ fs0[q].data # <<>>
    /\ ret.err = Nil
    /\ Len(call.dst) = 2

C2_Pre ==
    /\ call.ignoreMode # "nil" /\ ~call.inject
    /\ SrcIsDir
    /\ \A q \in Under(fs0, SrcReal) :
         Kept(Rel(SrcReal, q)) => fs0[q].kind \in {"file", "dir", "symlink"}
    /\ \A q \in Under(fs0, SrcReal) \cup {SrcReal} : Kept(Rel(SrcReal, q)) => ~fs0[q].ro
    /\ DstFresh /\ DstOutside /\ PathsFit

\* C2: an entry whose name is in the ignore set of its directory is never
\* passed to the copy function and never recursed into; and a CopyTree to a
\* fresh dst, when no entry that is reached is a named pipe and the operating
\* system fails nothing, succeeds with every reached file and directory
\* copied and nothing at dst for the ignored ones.
C2_IgnoredSkipped ==
    /\ \A j \in 1 .. Len(log) :
         (log[j].ev \in {"copy", "visit"} /\ log[j].src # call.src)
            => Last(log[j].src) \notin Ignore(call, Parent(log[j].src), <<>>)
    /\ (Done("CopyTree") /\ C2_Pre)
         => /\ ret = [path |-> call.dst, err |-> Nil]
            /\ \A q \in Under(fs0, SrcReal) :
                 IF Kept(Rel(SrcReal, q)) /\ fs0[q].kind \in {"file", "dir"}
                 THEN /\ DstReal \o Rel(SrcReal, q) \in DOMAIN fs
                      /\ fs[DstReal \o Rel(SrcReal, q)].kind = fs0[q].kind
                      /\ fs[DstReal \o Rel(SrcReal, q)].data = fs0[q].data
                 ELSE DstReal \o Rel(SrcReal, q) \notin DOMAIN fs

\* C2's case: Ignore names "a" at the top only; a is not at dst, b and c/d are.
C2_Witness ==
    /\ Done("CopyTree") /\ C2_Pre
    /\ call.ignoreMode = "top" /\ call.ignoreNames = {"a"}
    /\ Append(SrcReal, "a") \in DOMAIN fs0
    /\ ret.err = Nil
    /\ Append(DstReal, "a") \notin DOMAIN fs
    /\ Append(DstReal, "b") \in DOMAIN fs
    /\ DstReal \o <<"c", "d">> \in DOMAIN fs

\* The directories below src when CopyTree is called, src itself included.
SrcDirs == {SrcReal} \cup {q \in Under(fs0, SrcReal) : fs0[q].kind = "dir"}
SrcHeight == Max({Len(Rel(SrcReal, q)) : q \in SrcDirs})

\* C8: CopyTree's recursion is bounded by the source tree it was given: it is
\* never nested deeper than the directories of src are, so it visits no
\* chain of directories that it made itself.
C8_RecursionBounded ==
    (pc = "running" /\ SrcIsDir) => Len(stack) <= SrcHeight + 1

IgnoreAt(j) == log[j].ev = "ignore"

\* C9: with an Ignore callback, each directory CopyTree visits (it has its
\* listing) has Ignore called for it as the very next thing, with its source
\* path and its listing, once; Ignore is called at no other time, so not per
\* file, and not for an ignored entry or one that is not a directory; and it
\* is called before the mkdir of the directory's destination and before any
\* entry of the directory is copied.
C9_IgnoreOncePerDir ==
    call.ignoreMode # "nil" =>
        /\ \A j \in 1 .. Len(log) :
             log[j].ev = "visit" =>
                IF j < Len(log)
                THEN log[j + 1] = [log[j] EXCEPT !.ev = "ignore"]
                ELSE pc = "running" /\ Top.pc = "ignore" /\ Top.src = log[j].src
        /\ \A j \in 1 .. Len(log) :
             IgnoreAt(j) =>
                /\ j > 1 /\ log[j - 1].ev = "visit"
                /\ \A i \in 1 .. Len(log) : (IgnoreAt(i) /\ log[i].src = log[j].src) => i = j
                /\ Stat(fs, log[j].src).node.kind = "dir"
                /\ log[j].src # call.src =>
                     /\ Lstat(fs, log[j].src).node.kind = "dir"
                     /\ Last(log[j].src) \notin Ignore(call, Parent(log[j].src), <<>>)
        /\ \A j \in 1 .. Len(log) :
             log[j].ev = "mkdir" =>
                \E i \in 1 .. j - 1 : IgnoreAt(i) /\ log[i].src = log[j].src
        /\ \A j \in 1 .. Len(log) :
             log[j].ev = "copy" =>
                \E i \in 1 .. j - 1 : IgnoreAt(i) /\ log[i].src = Parent(log[j].src)
        /\ (log # <<>> /\ log[1].src = call.src /\ SrcIsDir) =>
             {log[1].subs[k] : k \in 1 .. Len(log[1].subs)}
                = {Last(q) : q \in {x \in Under(fs0, SrcReal) : Len(x) = Len(SrcReal) + 1}}

\* C9's case: a run that visited the root and a subdirectory, called Ignore
\* for both and copied a file of each.
C9_Witness ==
    /\ Done("CopyTree") /\ call.ignoreMode # "nil" /\ ret.err = Nil
    /\ Cardinality({j \in 1 .. Len(log) : IgnoreAt(j)}) >= 2
    /\ \E j \in 1 .. Len(log) : log[j].ev = "copy" /\ Len(log[j].src) = Len(call.src) + 2
    /\ \E j \in 1 .. Len(log) : log[j].ev = "copy" /\ Len(log[j].src) = Len(call.src) + 1

====
